---- MODULE Spec2Model ----
(***************************************************************************)
(* Food-name resolution of melitusgym: the TTL cache, the local food       *)
(* store, the dataset file scan and the write-through upsert of            *)
(* TACODynamicLoader (backend/app/services/taco_dynamic_loader.py), the    *)
(* TBCA online connector (tbca_connector.py) and the unified search of     *)
(* NutritionConnectorService (nutrition_connectors.py).                    *)
(*                                                                         *)
(* A text is a sequence of one-character strings.  The alphabet keeps the  *)
(* three forms the code tells apart: a plain lower-case letter, its upper  *)
(* case form and an accented lower-case form.                              *)
(***************************************************************************)
EXTENDS Integers, Sequences, FiniteSets, TLC

\* ---------------------------------------------------------------- bounds
\* Clock ticks a behaviour may take.
MaxTime == 2
\* Largest page_size a caller passes (the routes require page_size >= 1).
MaxPageSize == 2
\* InMemoryCache(ttl_seconds=600, max_items=1000), scaled down: ticks an
\* entry lives, and entries the cache may hold.
TTL == 1
MaxItems == 2

None == "None"

\* ------------------------------------------------------------------ text
\* unicodedata.normalize("NFKD", s).encode("ASCII", "ignore"), then lower():
\* the accent is dropped and the letter is lower-cased.
CleanChar(c) ==
    CASE c = "A" -> "a"
      [] c = "ã" -> "a"
      [] OTHER -> c

\* SQL lower() / ILIKE folding: the case is folded, the accent is kept.
LowerChar(c) ==
    CASE c = "A" -> "a"
      [] OTHER -> c

_clean_text(s) == [i \in 1..Len(s) |-> CleanChar(s[i])]

ilike_fold(s) == [i \in 1..Len(s) |-> LowerChar(s[i])]

\* Python's `sub in s` on strings, and SQL's LIKE '%sub%'.
Contains(sub, s) ==
    \E i \in 1..(Len(s) - Len(sub) + 1) : SubSeq(s, i, i + Len(sub) - 1) = sub

\* ---------------------------------------------------------------- inputs
NameAb == <<"A", "b">>
NameAbLower == <<"a", "b">>
NameAc == <<"ã", "c">>

Terms == {<<"A">>, <<"b">>}
PageSizes == 1..MaxPageSize

Row(n, k) == [name_pt |-> n, energy_kcal_100g |-> k]

\* The bundled dataset file: whether the path exists, whether _map_headers
\* found a name column in its header, and its data rows.
Files ==
    { [exists |-> TRUE, name_col |-> TRUE,
       rows |-> <<Row(NameAb, "130"), Row(NameAc, "140")>>],
      [exists |-> TRUE, name_col |-> FALSE,
       rows |-> <<Row(NameAb, "130")>>],
      [exists |-> FALSE, name_col |-> FALSE, rows |-> <<>>] }

\* ----------------------------------------------------------------- state
VARIABLES
    now,      \* datetime.now(), in ticks
    cache,    \* InMemoryCache.store, in dict insertion order
    store,    \* the taco_foods table, in id order
    file,     \* the dataset file at taco_file_path
    last,     \* what the last call did and returned
    callers   \* the position and locals of each concurrent caller of search()

vars == <<now, cache, store, file, last, callers>>

\* -------------------------------------------------------- InMemoryCache
IndexOf(c, key) ==
    IF \E i \in 1..Len(c) : c[i].key = key
    THEN CHOOSE i \in 1..Len(c) : c[i].key = key
    ELSE 0

RemoveAt(c, i) == SubSeq(c, 1, i - 1) \o SubSeq(c, i + 1, Len(c))

NoValue == [term |-> <<>>, sources |-> <<>>, items |-> <<>>, total_found |-> 0]

\* get() with the expiry test `>=`: an entry is dropped one tick early.
CacheGet_expire_early(c, key, t) ==
    LET i == IndexOf(c, key) IN
    IF i = 0 THEN [hit |-> FALSE, value |-> NoValue, store |-> c]
    ELSE IF t >= c[i].expires_at
         THEN [hit |-> FALSE, value |-> NoValue, store |-> RemoveAt(c, i)]
         ELSE [hit |-> TRUE, value |-> c[i].value, store |-> c]

\* get() without the expiry test: a stored entry is served for ever.
CacheGet_no_expiry(c, key, t) ==
    LET i == IndexOf(c, key) IN
    IF i = 0 THEN [hit |-> FALSE, value |-> NoValue, store |-> c]
    ELSE [hit |-> TRUE, value |-> c[i].value, store |-> c]

\* get(): a miss for an absent key; an entry past its expiry is popped and
\* is a miss; otherwise the stored value.
CacheGet(c, key, t) ==
    LET i == IndexOf(c, key) IN
    IF i = 0 THEN [hit |-> FALSE, value |-> NoValue, store |-> c]
    ELSE IF t > c[i].expires_at
         THEN [hit |-> FALSE, value |-> NoValue, store |-> RemoveAt(c, i)]
         ELSE [hit |-> TRUE, value |-> c[i].value, store |-> c]

\* The entry of greatest expires_at: the newest entry is evicted.
OldestIndex_latest(c) ==
    CHOOSE i \in 1..Len(c) :
        /\ \A j \in 1..Len(c) : c[i].expires_at >= c[j].expires_at
        /\ \A j \in (i + 1)..Len(c) : c[j].expires_at < c[i].expires_at

\* The loop of set(): the first entry, in dict order, of least expires_at.
OldestIndex(c) ==
    CHOOSE i \in 1..Len(c) :
        /\ \A j \in 1..Len(c) : c[i].expires_at <= c[j].expires_at
        /\ \A j \in 1..(i - 1) : c[j].expires_at > c[i].expires_at

\* set() without the size check: nothing is ever evicted.
CacheSet_no_eviction(c, key, value, t) ==
    LET i == IndexOf(c, key)
        e == [key |-> key, value |-> value, expires_at |-> t + TTL]
    IN IF i = 0 THEN Append(c, e) ELSE [c EXCEPT ![i] = e]

\* set(): at max_items the oldest entry is popped first; then the key's
\* entry is written (in place if the key is present, else at the end).
CacheSet(c, key, value, t) ==
    LET c1 == IF Len(c) >= MaxItems /\ Len(c) > 0 THEN RemoveAt(c, OldestIndex(c)) ELSE c
        i == IndexOf(c1, key)
        e == [key |-> key, value |-> value, expires_at |-> t + TTL]
    IN IF i = 0 THEN Append(c1, e) ELSE [c1 EXCEPT ![i] = e]

\* ------------------------------------------------------ TACODynamicLoader
CacheKey(term, page_size) == <<_clean_text(term), page_size>>

_normalize_item(row) ==
    [source |-> "taco_dynamic", name |-> row.name_pt,
     energy_kcal |-> row.energy_kcal_100g]

RECURSIVE _upsert_db_items_insert_only(_, _)
\* The upsert without its select: every named row is inserted.
_upsert_db_items_insert_only(s, rows) ==
    IF rows = <<>> THEN s
    ELSE IF Head(rows).name_pt = <<>> THEN _upsert_db_items_insert_only(s, Tail(rows))
    ELSE _upsert_db_items_insert_only(Append(s, Head(rows)), Tail(rows))

RECURSIVE _upsert_db_items_keep_known(_, _)
\* The upsert that keeps a stored value when the incoming one is null.
_upsert_db_items_keep_known(s, rows) ==
    IF rows = <<>> THEN s
    ELSE LET row == Head(rows)
             hit == {i \in 1..Len(s) : s[i].name_pt = row.name_pt}
         IN IF row.name_pt = <<>> THEN _upsert_db_items_keep_known(s, Tail(rows))
            ELSE IF hit # {}
                 THEN LET i == CHOOSE j \in hit : \A k \in hit : j <= k
                      IN _upsert_db_items_keep_known(
                             IF row.energy_kcal_100g = None THEN s
                             ELSE [s EXCEPT ![i].energy_kcal_100g = row.energy_kcal_100g],
                             Tail(rows))
                 ELSE _upsert_db_items_keep_known(Append(s, row), Tail(rows))

RECURSIVE _upsert_db_items(_, _)
\* One row after the other: a record of the same name_pt is overwritten,
\* otherwise a record is added; rows without a name are skipped.
_upsert_db_items(s, rows) ==
    IF rows = <<>> THEN s
    ELSE LET row == Head(rows)
             hit == {i \in 1..Len(s) : s[i].name_pt = row.name_pt}
         IN IF row.name_pt = <<>> THEN _upsert_db_items(s, Tail(rows))
            ELSE IF hit # {}
                 THEN LET i == CHOOSE j \in hit : \A k \in hit : j <= k
                      IN _upsert_db_items(
                             [s EXCEPT ![i].energy_kcal_100g = row.energy_kcal_100g],
                             Tail(rows))
                 ELSE _upsert_db_items(Append(s, row), Tail(rows))

RECURSIVE ScanRows(_, _, _)
\* The row loop of _scan_csv / _scan_xlsx: the rows whose cleaned name
\* contains the cleaned term, in file order, until page_size are found.
ScanRows(rows, term, page_size) ==
    IF rows = <<>> THEN <<>>
    ELSE LET r == Head(rows) IN
         IF r.name_pt = <<>> \/ ~Contains(_clean_text(term), _clean_text(r.name_pt))
         THEN ScanRows(Tail(rows), term, page_size)
         ELSE IF page_size <= 1 THEN <<r>>
              ELSE <<r>> \o ScanRows(Tail(rows), term, page_size - 1)

\* The scan without the test of the mapped name column: the rows are read
\* whatever the header maps.
_scan_file_any_header(f, term, page_size) ==
    IF ~f.exists THEN <<>>
    ELSE ScanRows(f.rows, term, page_size)

\* _scan_csv / _scan_xlsx: nothing when the path does not exist, nothing when
\* the header maps no name column, else the matching rows.
_scan_file(f, term, page_size) ==
    IF ~f.exists THEN <<>>
    ELSE IF ~f.name_col THEN <<>>
    ELSE ScanRows(f.rows, term, page_size)

RECURSIVE SeqOfIds(_, _)
SeqOfIds(s, ids) ==
    IF ids = {} THEN <<>>
    ELSE LET i == CHOOSE j \in ids : \A k \in ids : j <= k
         IN <<s[i]>> \o SeqOfIds(s, ids \ {i})

Min(a, b) == IF a <= b THEN a ELSE b

\* select(TACOFood).where(name_pt.ilike('%term%')).limit(page_size): the
\* statement has no ORDER BY, so any page_size of the matching records may
\* come back.
DbQuery(s, term, page_size) ==
    LET match == {i \in 1..Len(s) : Contains(ilike_fold(term), ilike_fold(s[i].name_pt))}
        n == Min(page_size, Cardinality(match))
    IN {SeqOfIds(s, ids) : ids \in {x \in SUBSET match : Cardinality(x) = n}}

NormalizeAll(rows) == [i \in 1..Len(rows) |-> _normalize_item(rows[i])]

SearchResult(term, items) ==
    [term |-> term,
     sources |-> <<IF Len(items) > 0 THEN "taco_db" ELSE "taco_file">>,
     items |-> items,
     total_found |-> Len(items)]

Idle == [op |-> "none"]

\* No search() is in progress in another thread.
NoCallers == <<>>

\* The scan only when the store found nothing at all.
NeedsScan_only_when_empty(found, page_size) == found = 0

\* `if len(items) < page_size:` the file is scanned when the store did not
\* fill the page.
NeedsScan(found, page_size) == found < page_size

\* The scanner asked for a whole page, whatever the store found.
Remaining_whole_page(page_size, found) == page_size

\* `remaining = page_size - len(items)`: what the scanner is asked for.
Remaining(page_size, found) == page_size - found

\* The upsert wrapped in try/except as tbca_connector does: only an error of
\* the store query leaves search().
Propagates_query_only(db_error) == db_error = "query"

\* search() has no try/except: an error raised by the store query or by the
\* upsert leaves search() at once.
Propagates(db_error) == db_error # "none"

\* The cache written before the upsert.
SearchSteps_cache_before_upsert(queried, scan, upsert, cached) ==
    (IF queried THEN <<"query">> ELSE <<>>) \o (IF scan THEN <<"scan">> ELSE <<>>)
    \o (IF cached THEN <<"cache_set">> ELSE <<>>) \o (IF upsert THEN <<"upsert">> ELSE <<>>)

\* The steps of a search that missed the cache, in the order of the
\* statements of search(): the store query, the file scan, the upsert, the
\* cache write; each one if it was reached.
SearchSteps(queried, scan, upsert, cached) ==
    (IF queried THEN <<"query">> ELSE <<>>) \o (IF scan THEN <<"scan">> ELSE <<>>)
    \o (IF upsert THEN <<"upsert">> ELSE <<>>) \o (IF cached THEN <<"cache_set">> ELSE <<>>)

\* TACODynamicLoader.search(term, page_size).  fail is where the store is
\* unreachable during this call: "query", "upsert" or "none".
Search(term, page_size, fail) ==
    LET key == CacheKey(term, page_size)
        g == CacheGet(cache, key, now)
        call == [op |-> "search", term |-> term, page_size |-> page_size, key |-> key,
                 hit |-> g.hit, expired |-> (IndexOf(cache, key) # 0 /\ ~g.hit)]
    IN
    /\ UNCHANGED <<now, file, callers>>
    /\ IF g.hit
       THEN /\ cache' = g.store
            /\ UNCHANGED store
            /\ last' = call @@ [outcome |-> "ok", result |-> g.value, db_error |-> "none",
                                db_queries |-> 0, db_found |-> 0, scan_calls |-> 0,
                                scan_asked |-> 0, scanned |-> <<>>, upserts |-> 0,
                                cache_sets |-> 0, evicted |-> FALSE, steps |-> <<>>]
       ELSE \E found \in (IF fail = "query" THEN {<<>>} ELSE DbQuery(store, term, page_size)) :
            LET items0 == NormalizeAll(found)
                scan == fail # "query" /\ NeedsScan(Len(items0), page_size)
                asked == IF scan THEN Remaining(page_size, Len(items0)) ELSE 0
                scanned == IF scan THEN _scan_file(file, term, asked) ELSE <<>>
                db_error == IF fail = "query" THEN "query"
                            ELSE IF fail = "upsert" /\ scanned # <<>> THEN "upsert"
                            ELSE "none"
                items == items0 \o NormalizeAll(scanned)
                result == SearchResult(term, items)
                done == [db_error |-> db_error, db_queries |-> 1, db_found |-> Len(found),
                         scan_calls |-> IF scan THEN 1 ELSE 0, scan_asked |-> asked,
                         scanned |-> scanned,
                         upserts |-> IF scanned # <<>> THEN 1 ELSE 0]
            IN IF Propagates(db_error)
               THEN /\ cache' = g.store
                    /\ UNCHANGED store
                    /\ last' = call @@ done @@
                               [outcome |-> "error", result |-> NoValue,
                                cache_sets |-> 0, evicted |-> FALSE,
                                steps |-> SearchSteps(TRUE, scan, scanned # <<>>, FALSE)]
               ELSE /\ store' = IF scanned # <<>> /\ db_error = "none"
                                THEN _upsert_db_items(store, scanned)
                                ELSE store
                    /\ cache' = CacheSet(g.store, key, result, now)
                    /\ last' = call @@ done @@
                               [outcome |-> "ok", result |-> result, cache_sets |-> 1,
                                evicted |-> (Len(g.store) >= MaxItems /\ Len(g.store) > 0),
                                steps |-> SearchSteps(TRUE, scan, scanned # <<>>, TRUE)]

\* ---------------------------------------------------------- TBCAConnector
\* What the TBCA site lists for a search, and the energy its detail pages
\* give (None when the nutrient table has no energy row).
SiteListings == {<<>>, <<NameAbLower, NameAc>>}
SiteEnergy == {None}

\* _search_list(term, limit): the listing, cut at limit entries.
_search_list(listing, limit) == SubSeq(listing, 1, Min(limit, Len(listing)))

\* _to_db_rows: one store row per enriched item.
_to_db_rows(enriched) ==
    [i \in 1..Len(enriched) |-> Row(enriched[i].name, enriched[i].energy_kcal)]

\* _to_response_items: the items returned to the caller.
_to_response_items(enriched) ==
    [i \in 1..Len(enriched) |->
        [source |-> "tbca_online", name |-> enriched[i].name,
         energy_kcal |-> enriched[i].energy_kcal]]

EmptyFound == [items |-> <<>>, total_found |-> 0]

\* Only a failure of the listing request is caught: one of a detail page
\* leaves search_foods.
TbcaCaught_listing_only(fault) == fault # "details"

\* `except requests.RequestException` and `except Exception` around the
\* whole body, and the try/except around the upsert: every failure is caught.
TbcaCaught(fault) == fault \in {"none", "listing", "details", "upsert"}

\* The upsert committing row by row: a failure keeps the rows before it.
TbcaUpsert_commit_per_row(s, rows, fault) ==
    IF fault = "upsert" THEN _upsert_db_items(s, SubSeq(rows, 1, 1))
    ELSE _upsert_db_items(s, rows)

\* The upsert inside its own try/except.  _upsert_db_items commits once, after
\* the last row: when it fails nothing is written, and the failure is logged.
TbcaUpsert(s, rows, fault) ==
    IF fault = "upsert" THEN s ELSE _upsert_db_items(s, rows)

\* TBCAConnector.search_foods(term, page_size).  listing and energy are what
\* the site answers; fault is what fails during the call: the "listing"
\* request, a "details" request, the store during the "upsert", or "none".
TbcaSearchFoods(term, page_size, listing, energy, fault) ==
    LET base_list == IF fault = "listing" THEN <<>> ELSE _search_list(listing, page_size)
        enriched == [i \in 1..Len(base_list) |->
                        [name |-> base_list[i], energy_kcal |-> energy]]
        rows == _to_db_rows(enriched)
        items_resp == _to_response_items(enriched)
        failed == fault = "listing" \/ (fault = "details" /\ base_list # <<>>)
        \* what did fail: a fault of a step the call never reached is none
        failure == IF failed \/ (fault = "upsert" /\ base_list # <<>>) THEN fault ELSE "none"
        call == [op |-> "tbca", term |-> term, failure |-> failure]
    IN
    /\ UNCHANGED <<now, cache, file, callers>>
    /\ IF failed /\ ~TbcaCaught(fault)
       THEN /\ UNCHANGED store
            /\ last' = call @@ [outcome |-> "error", result |-> EmptyFound,
                                upserts |-> 0, upsert_failed |-> FALSE]
       ELSE IF failed \/ base_list = <<>>
       THEN /\ UNCHANGED store
            /\ last' = call @@ [outcome |-> "ok", result |-> EmptyFound,
                                upserts |-> 0, upsert_failed |-> FALSE]
       ELSE /\ store' = TbcaUpsert(store, rows, fault)
            /\ last' = call @@ [outcome |-> "ok",
                                result |-> [items |-> items_resp,
                                            total_found |-> Len(items_resp),
                                            sources |-> <<"tbca_online">>],
                                upserts |-> 1, upsert_failed |-> (fault = "upsert")]

DoTbca ==
    \E t \in Terms, p \in PageSizes, l \in SiteListings, e \in SiteEnergy,
       f \in {"none", "listing", "details", "upsert"} :
        TbcaSearchFoods(t, p, l, e, f)

\* ------------------------------------------------ NutritionConnectorService
\* `if results["total_found"] < 5:` the threshold below which the fallback
\* connector is asked.
FallbackThreshold == 5
\* @retry(stop=stop_after_attempt(3)) on both connectors' search_foods.
MaxAttempts == 3
\* Products OpenFoodFacts and foods USDA FDC may answer with.
MaxProducts == 6
MaxFoods == 2

\* The fallback asked only after a total miss of the first connector.
NeedsFallback_only_on_miss(total_found) == total_found = 0

NeedsFallback(total_found) == total_found < FallbackThreshold

Tags(n, tag) == [i \in 1..n |-> tag]

\* The outcome of one connector call: fails attempts raise before one
\* succeeds with found items; at MaxAttempts failures the call raises.
Raised(r) == r.fails >= MaxAttempts
Attempts(r) == IF Raised(r) THEN MaxAttempts ELSE r.fails + 1

\* NutritionConnectorService.search_unified(term, page_size): OpenFoodFacts
\* first, USDA FDC as the fallback.  off and fdc are what the two services
\* answer when asked.
SearchUnified(term, page_size, off, fdc) ==
    LET off_found == IF Raised(off) THEN 0 ELSE off.found
        sources1 == IF off_found > 0 THEN <<"openfoodfacts">> ELSE <<>>
        items1 == Tags(off_found, "openfoodfacts")
        total1 == off_found
        fallback == NeedsFallback(total1)
        fdc_found == IF fallback /\ ~Raised(fdc) THEN fdc.found ELSE 0
        sources2 == IF fdc_found > 0 THEN Append(sources1, "usda_fdc") ELSE sources1
        items2 == items1 \o Tags(fdc_found, "usda_fdc")
    IN
    /\ UNCHANGED <<now, cache, store, file, callers>>
    /\ last' = [op |-> "search_unified", term |-> term, page_size |-> page_size,
                off_calls |-> 1, off_attempts |-> Attempts(off), off_found |-> off_found,
                fdc_calls |-> IF fallback THEN 1 ELSE 0,
                fdc_attempts |-> IF fallback THEN Attempts(fdc) ELSE 0,
                fdc_page_size |-> IF fallback THEN page_size - total1 ELSE 0,
                fdc_found |-> fdc_found,
                result |-> [term |-> term, sources |-> sources2, items |-> items2,
                            total_found |-> total1 + fdc_found]]

DoSearchUnified ==
    \E t \in Terms, p \in PageSizes,
       off \in [fails : 0..MaxAttempts, found : 0..MaxProducts],
       fdc \in [fails : 0..MaxAttempts, found : 0..MaxFoods] :
        SearchUnified(t, p, off, fdc)

\* The clock advances.
Tick ==
    /\ now < MaxTime
    /\ now' = now + 1
    /\ last' = Idle
    /\ UNCHANGED <<cache, store, file, callers>>

Init ==
    /\ now = 0
    /\ cache = <<>>
    /\ store = <<>>
    /\ file \in Files
    /\ last = Idle
    /\ callers = NoCallers

DoSearch == \E t \in Terms, p \in PageSizes, f \in {"none", "query", "upsert"} : Search(t, p, f)

Next ==
    \/ DoSearch
    \/ DoTbca
    \/ Tick

Spec == Init /\ [][Next]_vars

\* The unified search alone: it shares no state with the loader.
NextUnified == DoSearchUnified

SpecUnified == Init /\ [][NextUnified]_vars

\* ------------------------------------------------ NutritionCalculatorService
\* A number is an exact fraction n/d in lowest terms with d > 0, so that two
\* equal numbers are the same record.  Python's floats are modelled by the
\* fractions they stand for; round() is the one place where the difference
\* shows, see Round2.
Abs(x) == IF x < 0 THEN -x ELSE x

RECURSIVE Gcd(_, _)
Gcd(a, b) == IF b = 0 THEN a ELSE Gcd(b, a % b)

Rat(n, d) ==
    LET g == Gcd(Abs(n), Abs(d))
        s == IF d < 0 THEN -1 ELSE 1
    IN [n |-> (s * n) \div g, d |-> (s * d) \div g]

RMul(a, b) ==
    LET g1 == Gcd(Abs(a.n), b.d)
        g2 == Gcd(Abs(b.n), a.d)
    IN Rat((a.n \div g1) * (b.n \div g2), (a.d \div g2) * (b.d \div g1))

RDiv(a, b) == RMul(a, [n |-> b.d, d |-> b.n])

RSub(a, b) == Rat(a.n * b.d - b.n * a.d, a.d * b.d)

RLe(a, b) == a.n * b.d <= b.n * a.d

RAbs(a) == [n |-> Abs(a.n), d |-> a.d]

\* An Optional[float]: None, or a number.
NoneNum == [some |-> FALSE, val |-> Rat(0, 1)]
Some(r) == [some |-> TRUE, val |-> r]

\* round(x, 1): one decimal instead of two.
Round2_one_decimal(r) ==
    LET whole == r.n \div r.d
        rem == r.n - whole * r.d
        h == whole * 10 + (10 * rem) \div r.d
        t == (10 * rem) % r.d
    IN IF 2 * t < r.d THEN {Rat(h, 10)}
       ELSE IF 2 * t > r.d THEN {Rat(h + 1, 10)}
       ELSE {Rat(h, 10), Rat(h + 1, 10)}

\* round(x, 2) on a float: the nearest multiple of 0.01.  When the fraction
\* lies exactly half-way, the float that stands for it lies a little above
\* or below (or is exact and goes to the even side), so either neighbour
\* may come out.
Round2(r) ==
    LET whole == r.n \div r.d
        rem == r.n - whole * r.d
        h == whole * 100 + (100 * rem) \div r.d
        t == (100 * rem) % r.d
    IN IF 2 * t < r.d THEN {Rat(h, 100)}
       ELSE IF 2 * t > r.d THEN {Rat(h + 1, 100)}
       ELSE {Rat(h, 100), Rat(h + 1, 100)}

\* str.lower() on the letters the inputs use.
PyLower(c) ==
    CASE c = "G" -> "g"
      [] c = "M" -> "m"
      [] OTHER -> c

RECURSIVE LStrip(_)
LStrip(s) == IF s # <<>> /\ Head(s) = " " THEN LStrip(Tail(s)) ELSE s

RECURSIVE RStrip(_)
RStrip(s) == IF s # <<>> /\ s[Len(s)] = " " THEN RStrip(SubSeq(s, 1, Len(s) - 1)) ELSE s

\* unit.lower().strip()
LowerStrip(s) == RStrip(LStrip([i \in 1..Len(s) |-> PyLower(s[i])]))

Digits == {"0", "1", "2", "3", "4", "5", "6", "7", "8", "9"}

\* ''.join([c for c in unit if not c.isdigit()])
CleanUnit(s) == SelectSeq(LowerStrip(s), LAMBDA c : c \notin Digits)

\* The dict unit_conversions of _convert_to_grams.
unit_conversions ==
       <<"g">> :> Rat(1, 1)
    @@ <<"g", "r", "a", "m">> :> Rat(1, 1)
    @@ <<"g", "r", "a", "m", "s">> :> Rat(1, 1)
    @@ <<"g", "r", "a", "m", "a", "s">> :> Rat(1, 1)
    @@ <<"k", "g">> :> Rat(1000, 1)
    @@ <<"k", "i", "l", "o", "g", "r", "a", "m">> :> Rat(1000, 1)
    @@ <<"k", "i", "l", "o", "g", "r", "a", "m", "s">> :> Rat(1000, 1)
    @@ <<"q", "u", "i", "l", "o", "g", "r", "a", "m", "a">> :> Rat(1000, 1)
    @@ <<"q", "u", "i", "l", "o", "g", "r", "a", "m", "a", "s">> :> Rat(1000, 1)
    @@ <<"m", "g">> :> Rat(1, 1000)
    @@ <<"m", "i", "l", "l", "i", "g", "r", "a", "m">> :> Rat(1, 1000)
    @@ <<"m", "i", "l", "l", "i", "g", "r", "a", "m", "s">> :> Rat(1, 1000)
    @@ <<"m", "i", "l", "i", "g", "r", "a", "m", "a", "s">> :> Rat(1, 1000)
    @@ <<"o", "z">> :> Rat(283495, 10000)
    @@ <<"o", "u", "n", "c", "e">> :> Rat(283495, 10000)
    @@ <<"o", "u", "n", "c", "e", "s">> :> Rat(283495, 10000)
    @@ <<"l", "b">> :> Rat(453592, 1000)
    @@ <<"p", "o", "u", "n", "d">> :> Rat(453592, 1000)
    @@ <<"p", "o", "u", "n", "d", "s">> :> Rat(453592, 1000)
    @@ <<"m", "l">> :> Rat(1, 1)
    @@ <<"m", "i", "l", "l", "i", "l", "i", "t", "e", "r">> :> Rat(1, 1)
    @@ <<"m", "i", "l", "l", "i", "l", "i", "t", "e", "r", "s">> :> Rat(1, 1)
    @@ <<"m", "i", "l", "i", "l", "i", "t", "r", "o">> :> Rat(1, 1)
    @@ <<"m", "i", "l", "i", "l", "i", "t", "r", "o", "s">> :> Rat(1, 1)
    @@ <<"l">> :> Rat(1000, 1)
    @@ <<"l", "i", "t", "e", "r">> :> Rat(1000, 1)
    @@ <<"l", "i", "t", "e", "r", "s">> :> Rat(1000, 1)
    @@ <<"l", "i", "t", "r", "o">> :> Rat(1000, 1)
    @@ <<"l", "i", "t", "r", "o", "s">> :> Rat(1000, 1)
    @@ <<"c", "u", "p">> :> Rat(240, 1)
    @@ <<"c", "u", "p", "s">> :> Rat(240, 1)
    @@ <<"x", "í", "c", "a", "r", "a">> :> Rat(240, 1)
    @@ <<"x", "í", "c", "a", "r", "a", "s">> :> Rat(240, 1)
    @@ <<"t", "b", "s", "p">> :> Rat(15, 1)
    @@ <<"t", "a", "b", "l", "e", "s", "p", "o", "o", "n">> :> Rat(15, 1)
    @@ <<"t", "a", "b", "l", "e", "s", "p", "o", "o", "n", "s">> :> Rat(15, 1)
    @@ <<"c", "o", "l", "h", "e", "r", " ", "d", "e", " ", "s", "o", "p", "a">> :> Rat(15, 1)
    @@ <<"t", "s", "p">> :> Rat(5, 1)
    @@ <<"t", "e", "a", "s", "p", "o", "o", "n">> :> Rat(5, 1)
    @@ <<"t", "e", "a", "s", "p", "o", "o", "n", "s">> :> Rat(5, 1)
    @@ <<"c", "o", "l", "h", "e", "r", " ", "d", "e", " ", "c", "h", "á">> :> Rat(5, 1)

\* unit_conversions.get(clean_unit, 1): a unit the table lacks counts as 1.
UnitFactor(unit) ==
    IF CleanUnit(unit) \in DOMAIN unit_conversions
    THEN unit_conversions[CleanUnit(unit)]
    ELSE Rat(1, 1)

_convert_to_grams(value, unit) == RMul(value, UnitFactor(unit))

Base100g == <<"1", "0", "0", "g">>

\* The factor without the special case of "100g": the digits of the base
\* unit are dropped and the base counts as 1 gram.
_calculate_conversion_factor_no_100g(portion_value, portion_unit, base_unit) ==
    RDiv(_convert_to_grams(portion_value, portion_unit),
         _convert_to_grams(Rat(1, 1), base_unit))

_calculate_conversion_factor(portion_value, portion_unit, base_unit) ==
    LET portion_grams == _convert_to_grams(portion_value, portion_unit)
        base_grams == IF base_unit = Base100g THEN Rat(100, 1)
                      ELSE _convert_to_grams(Rat(1, 1), base_unit)
    IN RDiv(portion_grams, base_grams)

\* validate_portion_input: _convert_to_grams raises for no string, so every
\* non-empty unit passes.
validate_portion_input(portion_value, portion_unit) ==
    IF portion_value.n <= 0 THEN FALSE
    ELSE IF portion_unit = <<>> THEN FALSE
    ELSE TRUE

\* 4.184 kJ in a kcal.
KjPerKcal == Rat(4184, 1000)

\* dict.get(key) read as a condition: the key is there, its value is not
\* None and is not 0.
Truthy(d, key) == key \in DOMAIN d /\ d[key].some /\ d[key].val.n # 0

\* round(value * conversion_factor, 2), or None for None.
Scaled(v, factor) ==
    IF v.some THEN {Some(x) : x \in Round2(RMul(v.val, factor))} ELSE {NoneNum}

\* The loop over nutrients_base.items().
ScaleAll(base, factor) ==
    {c \in [DOMAIN base -> UNION {Scaled(base[k], factor) : k \in DOMAIN base}] :
        \A k \in DOMAIN base : c[k] \in Scaled(base[k], factor)}

\* `if calculated.get("energy_kj") and not calculated.get("energy_kcal")`.
DeriveKcal(c) ==
    IF Truthy(c, "energy_kj") /\ ~Truthy(c, "energy_kcal")
    THEN {[k \in DOMAIN c \cup {"energy_kcal"} |->
              IF k = "energy_kcal" THEN Some(x) ELSE c[k]] :
          x \in Round2(RDiv(c["energy_kj"].val, KjPerKcal))}
    ELSE {c}

\* The results calculate_portion_nutrition may return.
calculate_portion_nutrition(nutrients_base, portion_value, portion_unit, base_unit) ==
    LET conversion_factor ==
            _calculate_conversion_factor(portion_value, portion_unit, base_unit)
    IN {[nutrients |-> n, conversion_factor |-> conversion_factor,
         base_reference |-> base_unit,
         calculation_method |-> "proportional_conversion"] :
        n \in UNION {DeriveKcal(c) : c \in ScaleAll(nutrients_base, conversion_factor)}}

HasValue(d) == \E k \in DOMAIN d : d[k].some

\* The choice made on the per-serving nutrients alone.
_extract_base_nutrients_any_serving(item_data) ==
    IF DOMAIN item_data.nutrients_per_serving # {} /\ HasValue(item_data.nutrients_per_serving)
    THEN [base |-> item_data.nutrients_per_serving,
          base_unit |-> item_data.serving_size \o item_data.serving_quantity,
          method |-> "direct_serving"]
    ELSE [base |-> item_data.nutrients_per_100g, base_unit |-> Base100g,
          method |-> "converted_from_100g"]

\* _extract_base_nutrients.  serving_size and serving_quantity are texts, the
\* empty text standing for a value Python takes as false (None, "", 0).
_extract_base_nutrients(item_data) ==
    IF /\ item_data.serving_size # <<>>
       /\ item_data.serving_quantity # <<>>
       /\ DOMAIN item_data.nutrients_per_serving # {}
       /\ HasValue(item_data.nutrients_per_serving)
    THEN [base |-> item_data.nutrients_per_serving,
          base_unit |-> item_data.serving_size \o item_data.serving_quantity,
          method |-> "direct_serving"]
    ELSE [base |-> item_data.nutrients_per_100g, base_unit |-> Base100g,
          method |-> "converted_from_100g"]

\* -------- inputs of the calculator
Fields == {"energy_kcal", "energy_kj", "carbohydrates"}

\* None, 0, 0.004, 1.005, 100 and 418.4.
Values ==
    {NoneNum, Some(Rat(0, 1)), Some(Rat(4, 1000)), Some(Rat(1005, 1000)),
     Some(Rat(100, 1)), Some(Rat(4184, 10))}

\* The dicts of nutrients: any fields, any values.
Dicts == UNION {[S -> Values] : S \in SUBSET Fields}

PortionValues == {Rat(-1, 1), Rat(0, 1), Rat(10, 1), Rat(100, 1), Rat(150, 1), Rat(200, 1)}

UnitFurlongs == <<"f", "u", "r", "l", "o", "n", "g", "s">>

PortionUnits == {<<"g">>, <<"m", "g">>, <<"m", "l">>, <<" ", "G">>, UnitFurlongs, <<>>}

BaseUnits == {Base100g, <<"k", "g">>, <<"3", "0", "g", "3", "0">>}

\* What _get_item_data returns: None (found FALSE), or a normalized item.
Items ==
    [found : BOOLEAN,
     serving_size : {<<>>, <<"3", "0", "g">>},
     serving_quantity : {<<>>, <<"3", "0">>},
     nutrients_per_serving :
         {<<>>, [k \in {"energy_kcal"} |-> NoneNum], [k \in {"energy_kcal"} |-> Some(Rat(100, 1))]},
     nutrients_per_100g : {<<>>, [k \in {"energy_kcal"} |-> Some(Rat(4184, 10))]}]

\* A call of the calculator that waits to be made.
Requests ==
    [op : {"request"}, fn : {"validate_portion_input"},
     portion_value : PortionValues, portion_unit : PortionUnits]
    \cup
    [op : {"request"}, fn : {"calculate_portion_nutrition"},
     nutrients_base : Dicts,
     portion_value : {v \in PortionValues : v.n >= 100},
     portion_unit : PortionUnits \ {<<>>},
     base_unit : BaseUnits]
    \cup
    [op : {"request"}, fn : {"get_item_with_calculation"},
     item_data : Items,
     portion_value : {Rat(150, 1)},
     portion_unit : {<<"g">>}]

ValidatePortionInput ==
    /\ last.op = "request" /\ last.fn = "validate_portion_input"
    /\ last' = [op |-> "validate_portion_input",
                portion_value |-> last.portion_value, portion_unit |-> last.portion_unit,
                result |-> validate_portion_input(last.portion_value, last.portion_unit)]
    /\ UNCHANGED <<now, cache, store, file, callers>>

CalculatePortionNutrition ==
    /\ last.op = "request" /\ last.fn = "calculate_portion_nutrition"
    /\ \E r \in calculate_portion_nutrition(last.nutrients_base, last.portion_value,
                                            last.portion_unit, last.base_unit) :
          last' = [op |-> "calculate_portion_nutrition",
                   nutrients_base |-> last.nutrients_base,
                   portion_value |-> last.portion_value,
                   portion_unit |-> last.portion_unit,
                   base_unit |-> last.base_unit,
                   result |-> r]
    /\ UNCHANGED <<now, cache, store, file, callers>>

\* get_item_with_calculation: ValueError when the item is not found, else the
\* base is chosen and the portion is calculated from it.
GetItemWithCalculation ==
    /\ last.op = "request" /\ last.fn = "get_item_with_calculation"
    /\ IF ~last.item_data.found
       THEN last' = [op |-> "get_item_with_calculation", item_data |-> last.item_data,
                     outcome |-> "error"]
       ELSE LET b == _extract_base_nutrients(last.item_data)
            IN \E r \in calculate_portion_nutrition(b.base, last.portion_value,
                                                    last.portion_unit, b.base_unit) :
                  last' = [op |-> "get_item_with_calculation",
                           item_data |-> last.item_data,
                           outcome |-> "ok",
                           base |-> b.base,
                           calculation |-> r,
                           data_source_method |-> b.method]
    /\ UNCHANGED <<now, cache, store, file, callers>>

InitCalc ==
    /\ now = 0
    /\ cache = <<>>
    /\ store = <<>>
    /\ file \in {f \in Files : ~f.exists}
    /\ last \in Requests
    /\ callers = NoCallers

NextCalc ==
    \/ ValidatePortionInput
    \/ CalculatePortionNutrition
    \/ GetItemWithCalculation

SpecCalc == InitCalc /\ [][NextCalc]_vars

\* ------------------------------------------------------- header mapping
\* An Optional[int] column index, counted from 0 as enumerate() counts.
NoIdx == [some |-> FALSE, idx |-> 0]
Idx(i) == [some |-> TRUE, idx |-> i]

\* Python's truth value of an Optional[int]: None and 0 are both false.
TruthyIdx(x) == x.some /\ x.idx # 0

\* The first of the matching columns, counted from 0, or None.
FirstIdx(hit) ==
    IF hit = {} THEN NoIdx
    ELSE Idx((CHOOSE i \in hit : \A j \in hit : i <= j) - 1)

\* find_exact(column_name): the first cell equal to the cleaned name.
find_exact(normalized, column_name) ==
    FirstIdx({i \in 1..Len(normalized) : normalized[i] = _clean_text(column_name)})

\* find_idx(*keywords): the first cell that contains every keyword.
find_idx(normalized, keywords) ==
    FirstIdx({i \in 1..Len(normalized) :
                 \A k \in 1..Len(keywords) : Contains(keywords[k], normalized[i])})

\* One operand of a field's `or` chain.
Lookup(normalized, alt) ==
    IF alt.exact THEN find_exact(normalized, alt.keys[1])
    ELSE find_idx(normalized, alt.keys)

\* a or b or ... : the first operand that is true, else the last operand.
RECURSIVE OrChain(_, _)
OrChain(normalized, alts) ==
    LET x == Lookup(normalized, Head(alts))
    IN IF Len(alts) = 1 \/ TruthyIdx(x) THEN x
       ELSE OrChain(normalized, Tail(alts))

\* The lookups _map_headers chains for each canonical field, in its order.
HeaderRules ==
    [name_pt |->
        <<[exact |-> TRUE, keys |-> <<<<"n", "a", "m", "e", "_", "p", "t">>>>],
          [exact |-> FALSE, keys |-> <<<<"a", "l", "i", "m", "e", "n", "t", "o">>>>],
          [exact |-> FALSE, keys |-> <<<<"d", "e", "s", "c", "r", "i", "c", "a", "o">>>>],
          [exact |-> FALSE, keys |-> <<<<"n", "o", "m", "e">>>>]>>,
     category_pt |->
        <<[exact |-> TRUE, keys |-> <<<<"c", "a", "t", "e", "g", "o", "r", "y", "_", "p", "t">>>>],
          [exact |-> FALSE, keys |-> <<<<"g", "r", "u", "p", "o">>>>],
          [exact |-> FALSE, keys |-> <<<<"c", "a", "t", "e", "g", "o", "r", "i", "a">>>>]>>,
     energy_kcal_100g |->
        <<[exact |-> TRUE, keys |-> <<<<"e", "n", "e", "r", "g", "y", "_", "k", "c", "a", "l", "_", "1", "0", "0", "g">>>>],
          [exact |-> FALSE, keys |-> <<<<"e", "n", "e", "r", "g", "i", "a">>, <<"k", "c", "a", "l">>>>],
          [exact |-> FALSE, keys |-> <<<<"k", "c", "a", "l">>>>]>>,
     energy_kj_100g |->
        <<[exact |-> TRUE, keys |-> <<<<"e", "n", "e", "r", "g", "y", "_", "k", "j", "_", "1", "0", "0", "g">>>>],
          [exact |-> FALSE, keys |-> <<<<"e", "n", "e", "r", "g", "i", "a">>, <<"k", "j">>>>],
          [exact |-> FALSE, keys |-> <<<<"k", "j">>>>]>>,
     carbohydrates_100g |->
        <<[exact |-> TRUE, keys |-> <<<<"c", "a", "r", "b", "o", "h", "y", "d", "r", "a", "t", "e", "s", "_", "1", "0", "0", "g">>>>],
          [exact |-> FALSE, keys |-> <<<<"c", "a", "r", "b", "o">>, <<"g">>>>],
          [exact |-> FALSE, keys |-> <<<<"c", "a", "r", "b", "o", "i", "d", "r", "a", "t", "o", "s">>>>]>>,
     proteins_100g |->
        <<[exact |-> TRUE, keys |-> <<<<"p", "r", "o", "t", "e", "i", "n", "s", "_", "1", "0", "0", "g">>>>],
          [exact |-> FALSE, keys |-> <<<<"p", "r", "o", "t", "e", "i", "n", "a">>>>]>>,
     fat_100g |->
        <<[exact |-> TRUE, keys |-> <<<<"f", "a", "t", "_", "1", "0", "0", "g">>>>],
          [exact |-> FALSE, keys |-> <<<<"l", "i", "p", "i", "d", "i", "o">>>>],
          [exact |-> FALSE, keys |-> <<<<"g", "o", "r", "d", "u", "r", "a">>>>]>>,
     fiber_100g |->
        <<[exact |-> TRUE, keys |-> <<<<"f", "i", "b", "e", "r", "_", "1", "0", "0", "g">>>>],
          [exact |-> FALSE, keys |-> <<<<"f", "i", "b", "r", "a">>>>]>>,
     sugars_100g |->
        <<[exact |-> TRUE, keys |-> <<<<"s", "u", "g", "a", "r", "s", "_", "1", "0", "0", "g">>>>],
          [exact |-> FALSE, keys |-> <<<<"a", "c", "u", "c", "a", "r">>>>],
          [exact |-> FALSE, keys |-> <<<<"a", "ç", "u", "c", "a", "r">>>>],
          [exact |-> FALSE, keys |-> <<<<"s", "a", "c", "a", "r", "o", "s", "e">>>>]>>,
     sodium_mg_100g |->
        <<[exact |-> TRUE, keys |-> <<<<"s", "o", "d", "i", "u", "m", "_", "m", "g", "_", "1", "0", "0", "g">>>>],
          [exact |-> FALSE, keys |-> <<<<"s", "o", "d", "i", "o">>>>],
          [exact |-> FALSE, keys |-> <<<<"s", "ó", "d", "i", "o">>>>]>>,
     glycemic_index |->
        <<[exact |-> TRUE, keys |-> <<<<"g", "l", "y", "c", "e", "m", "i", "c", "_", "i", "n", "d", "e", "x">>>>],
          [exact |-> FALSE, keys |-> <<<<"i", "n", "d", "i", "c", "e">>, <<"g", "l", "i", "c", "e", "m", "i", "c", "o">>>>],
          [exact |-> FALSE, keys |-> <<<<"i", "g">>>>]>>]

CanonicalFields == DOMAIN HeaderRules

_map_headers(headers) ==
    LET normalized == [i \in 1..Len(headers) |-> _clean_text(headers[i])]
    IN [f \in CanonicalFields |-> OrChain(normalized, HeaderRules[f])]

\* Header cells: the exported CSV's own column names, the original table's
\* labels, and a cell no field matches.
HeaderCells ==
    {<<"n", "a", "m", "e", "_", "p", "t">>,
     <<"A", "l", "i", "m", "e", "n", "t", "o">>,
     <<"n", "o", "m", "e">>,
     <<"c", "a", "t", "e", "g", "o", "r", "y", "_", "p", "t">>,
     <<"e", "n", "e", "r", "g", "i", "a", " ", "k", "c", "a", "l">>,
     <<"x">>}

MaxColumns == 3

HeaderRows == UNION {[1..n -> HeaderCells] : n \in 1..MaxColumns}

MapHeaders ==
    /\ last.op = "headers"
    /\ last' = [op |-> "mapped", headers |-> last.headers,
                mapping |-> _map_headers(last.headers)]
    /\ UNCHANGED <<now, cache, store, file, callers>>

InitHeaders ==
    /\ now = 0
    /\ cache = <<>>
    /\ store = <<>>
    /\ file \in {f \in Files : ~f.exists}
    /\ last \in {[op |-> "headers", headers |-> h] : h \in HeaderRows}
    /\ callers = NoCallers

NextHeaders == MapHeaders

SpecHeaders == InitHeaders /\ [][NextHeaders]_vars

\* ------------------------------------------------------ concurrent callers
\* Two threads call search() on one loader.  A thread may be switched between
\* any two statements, so each caller advances by one statement at a time:
\* cache.get, the store query, the file scan, each select-then-add of the
\* upsert loop, session.commit, and the two halves of cache.set (the size
\* check with its search for the oldest key, then the pop and the write).
Callers == {1, 2}

NoKey == <<>>

Parked ==
    [pc |-> "idle", term |-> <<>>, page_size |-> 0, hit |-> FALSE,
     items |-> <<>>, scanned |-> <<>>, pending |-> <<>>,
     oldest |-> NoKey, seen |-> 0, result |-> NoValue,
     error |-> "none", latest |-> FALSE]

KeyOf(c) == CacheKey(c.term, c.page_size)

\* What is left of a call that returned: its arguments and its result.
Returned(c, hit, result) ==
    [Parked EXCEPT !.pc = "done", !.term = c.term, !.page_size = c.page_size,
                   !.hit = hit, !.result = result]

\* The callers ask for whole pages.
ConcPageSizes == {MaxPageSize}

\* A thread enters search(term, page_size); what its previous call left is
\* gone.
Call(p, term, page_size) ==
    /\ callers[p].pc \in {"idle", "done", "failed"}
    /\ callers' = [callers EXCEPT ![p] =
                      [Parked EXCEPT !.pc = "get", !.term = term, !.page_size = page_size]]
    /\ UNCHANGED <<now, cache, store, file, last>>

\* cached = self.cache.get(key); a hit returns at once.
CGet(p) ==
    LET c == callers[p]
        g == CacheGet(cache, KeyOf(c), now)
    IN /\ c.pc = "get"
       /\ cache' = g.store
       /\ callers' = [callers EXCEPT ![p] =
              IF g.hit THEN Returned(c, TRUE, g.value)
              ELSE [c EXCEPT !.pc = "query"]]
       /\ UNCHANGED <<now, store, file, last>>

\* The store query, in its own session.
CQuery(p) ==
    LET c == callers[p] IN
    /\ c.pc = "query"
    /\ \E found \in DbQuery(store, c.term, c.page_size) :
          callers' = [callers EXCEPT ![p] =
              [c EXCEPT !.items = NormalizeAll(found),
                        !.pc = IF NeedsScan(Len(found), c.page_size)
                               THEN "scan" ELSE "set"]]
    /\ UNCHANGED <<now, cache, store, file, last>>

\* The file scan for what the store left open.
CScan(p) ==
    LET c == callers[p]
        scanned == _scan_file(file, c.term, Remaining(c.page_size, Len(c.items)))
    IN /\ c.pc = "scan"
       /\ callers' = [callers EXCEPT ![p] =
              [c EXCEPT !.scanned = scanned,
                        !.pc = IF scanned # <<>> THEN "upsert" ELSE "set"]]
       /\ UNCHANGED <<now, cache, store, file, last>>

\* The select of the upsert loop sees what is committed and what its own
\* session has added, never what another session has not committed yet.
Existing(s, pending, name) ==
    \/ \E i \in 1..Len(s) : s[i].name_pt = name
    \/ \E j \in 1..Len(pending) :
          pending[j].kind # "skip" /\ pending[j].row.name_pt = name

\* One turn of the loop of _upsert_db_items: the select by name, then
\* session.add of the updated record or of a new one.
CUpsertRow(p) ==
    LET c == callers[p] IN
    /\ c.pc = "upsert"
    /\ Len(c.pending) < Len(c.scanned)
    /\ LET row == c.scanned[Len(c.pending) + 1]
           kind == IF row.name_pt = <<>> THEN "skip"
                   ELSE IF Existing(store, c.pending, row.name_pt) THEN "update"
                   ELSE "insert"
       IN callers' = [callers EXCEPT ![p] =
              [c EXCEPT !.pending = Append(c.pending, [kind |-> kind, row |-> row])]]
    /\ UNCHANGED <<now, cache, store, file, last>>

\* ON CONFLICT DO UPDATE: an insert of a stored name never fails.
UniqueViolation_on_conflict_update(s, pending) == FALSE

\* The unique index of taco_foods.name_pt: a pending insert of a name that is
\* committed by now fails the commit.
UniqueViolation(s, pending) ==
    \E j \in 1..Len(pending) :
        /\ pending[j].kind = "insert"
        /\ \E i \in 1..Len(s) : s[i].name_pt = pending[j].row.name_pt

RECURSIVE Writes(_)
\* The rows a session has added.
Writes(pending) ==
    IF pending = <<>> THEN <<>>
    ELSE (IF Head(pending).kind = "skip" THEN <<>> ELSE <<Head(pending).row>>)
         \o Writes(Tail(pending))

\* session.commit(): the writes of the session reach the table together, or
\* the IntegrityError of the unique index leaves search() and nothing is
\* written.  After the upsert the scanned rows are added to the items.
CCommit(p) ==
    LET c == callers[p] IN
    /\ c.pc = "upsert"
    /\ Len(c.pending) = Len(c.scanned)
    /\ IF UniqueViolation(store, c.pending)
       THEN /\ UNCHANGED store
            /\ callers' = [callers EXCEPT ![p] =
                   [c EXCEPT !.pc = "failed", !.error = "integrity"]]
       ELSE /\ store' = _upsert_db_items(store, Writes(c.pending))
            /\ callers' = [callers EXCEPT ![p] =
                   [c EXCEPT !.pc = "set",
                             !.items = c.items \o NormalizeAll(c.scanned)]]
    /\ UNCHANGED <<now, cache, file, last>>

\* The first half of cache.set(key, result): the size check and, at
\* max_items, the loop that finds the key of least expires_at.
CSetBegin(p) ==
    LET c == callers[p]
        full == Len(cache) >= MaxItems /\ Len(cache) > 0
    IN /\ c.pc = "set"
       /\ callers' = [callers EXCEPT ![p] =
              [c EXCEPT !.pc = "write",
                        !.result = SearchResult(c.term, c.items),
                        !.oldest = IF full THEN cache[OldestIndex(cache)].key ELSE NoKey,
                        !.seen = IF full THEN Len(cache) ELSE 0]]
       /\ UNCHANGED <<now, cache, store, file, last>>

\* store.pop(oldest_key, None), then store[key] = entry.
CacheWrite(c, oldest, key, value, t) ==
    LET i0 == IndexOf(c, oldest)
        c1 == IF oldest # NoKey /\ i0 # 0 THEN RemoveAt(c, i0) ELSE c
        i == IndexOf(c1, key)
        e == [key |-> key, value |-> value, expires_at |-> t + TTL]
    IN IF i = 0 THEN Append(c1, e) ELSE [c1 EXCEPT ![i] = e]

\* The second half of cache.set.  If the loop over the dict ran and the other
\* thread changed the size of the dict meanwhile, the change fell either
\* inside the loop (RuntimeError: dictionary changed size during iteration)
\* or after it.
CSetWrite(p) ==
    LET c == callers[p] IN
    /\ c.pc = "write"
    /\ \E raced \in (IF c.seen > 0 /\ Len(cache) # c.seen THEN {TRUE, FALSE} ELSE {FALSE}) :
          IF raced
          THEN /\ UNCHANGED cache
               /\ callers' = [callers EXCEPT ![p] =
                      [c EXCEPT !.pc = "failed", !.error = "runtime"]]
          ELSE /\ cache' = CacheWrite(cache, c.oldest, KeyOf(c), c.result, now)
               /\ callers' = [q \in Callers |->
                      IF q = p THEN [Returned(c, FALSE, c.result) EXCEPT !.latest = TRUE]
                      ELSE [callers[q] EXCEPT !.latest = FALSE]]
    /\ UNCHANGED <<now, store, file, last>>

InitConc ==
    /\ now = 0
    /\ cache = <<>>
    /\ store = <<>>
    /\ file \in {f \in Files : f.exists}
    /\ last = Idle
    /\ callers = [p \in Callers |-> Parked]

NextConc ==
    \/ \E p \in Callers, t \in Terms, n \in ConcPageSizes : Call(p, t, n)
    \/ \E p \in Callers : CGet(p)
    \/ \E p \in Callers : CQuery(p)
    \/ \E p \in Callers : CScan(p)
    \/ \E p \in Callers : CUpsertRow(p)
    \/ \E p \in Callers : CCommit(p)
    \/ \E p \in Callers : CSetBegin(p)
    \/ \E p \in Callers : CSetWrite(p)
    \/ Tick

SpecConc == InitConc /\ [][NextConc]_vars

\* ------------------------------------------- terms of one normalized form
\* Terms that differ only in case or accents: _clean_text makes "a" of each.
FoldedTerms == {<<"A">>, <<"a">>, <<"ã">>}

DoSearchFolded ==
    \E t \in FoldedTerms, p \in PageSizes, f \in {"none", "query", "upsert"} : Search(t, p, f)

NextFolded ==
    \/ DoSearchFolded
    \/ Tick

SpecFolded == Init /\ [][NextFolded]_vars

\* ================================================================ claims

\* C1, as stated: in search_unified the fallback connector is never invoked
\* when the first connector returned at least one match, and is invoked
\* exactly once, its result tagged "tbca_online", when it returned none.
C1_FallbackOnlyOnTotalMiss ==
    last.op = "search_unified" =>
        /\ last.off_found >= 1 => last.fdc_calls = 0
        /\ last.off_found = 0 =>
              /\ last.fdc_calls = 1
              /\ last.fdc_found > 0 => last.result.sources = <<"tbca_online">>

\* C1, amended: search_unified calls the first connector once; it calls the
\* fallback connector (USDA FDC) exactly once when the first connector
\* contributed fewer than 5 items (none, when it raised) and not at all
\* otherwise; the items the fallback returns are tagged "usda_fdc" and come
\* after the first connector's, and total_found counts both.
C1_FallbackBelowThreshold ==
    last.op = "search_unified" =>
        /\ last.off_calls = 1
        /\ last.fdc_calls = (IF last.off_found < FallbackThreshold THEN 1 ELSE 0)
        /\ last.fdc_calls = 0 => last.fdc_found = 0
        /\ last.result.total_found = last.off_found + last.fdc_found
        /\ Len(last.result.items) = last.result.total_found
        /\ \A i \in 1..Len(last.result.items) :
              last.result.items[i] =
                  (IF i <= last.off_found THEN "openfoodfacts" ELSE "usda_fdc")
        /\ last.fdc_found > 0 =>
              last.result.sources[Len(last.result.sources)] = "usda_fdc"
        /\ \A i \in 1..Len(last.result.sources) : last.result.sources[i] # "tbca_online"

\* The first connector found some items, fewer than 5, and the fallback was
\* called and found more.
C1_Witness ==
    /\ last.op = "search_unified"
    /\ last.off_found >= 1
    /\ last.off_found < FallbackThreshold
    /\ last.fdc_calls = 1
    /\ last.fdc_found > 0

\* C2, as stated: a result a search has cached is what every search of the
\* same (term, page_size) gets while its TTL window lasts: after any step,
\* an entry that is not past its expiry is still served by the cache.
C2_ServedWithinTtl ==
    [][\A i \in 1..Len(cache) :
          now' <= cache[i].expires_at =>
              LET g == CacheGet(cache', cache[i].key, now')
              IN g.hit /\ g.value = cache[i].value]_vars

\* C2, amended: a search whose key has an entry in the cache that is not past
\* its expiry (a second call within the TTL window whose entry was not
\* evicted for the size bound in between) returns the cached result and
\* runs no store query, no file scan and no upsert; store and cache are
\* left as they were.
C2_HitWhileCached ==
    [][last'.op = "search" =>
          \A i \in 1..Len(cache) :
              (cache[i].key = last'.key /\ now <= cache[i].expires_at) =>
                  /\ last'.hit
                  /\ last'.result = cache[i].value
                  /\ last'.db_queries = 0
                  /\ last'.scan_calls = 0
                  /\ last'.upserts = 0
                  /\ store' = store
                  /\ cache' = cache]_vars

\* A search served from the cache, at the last instant of the entry's window.
C2_Witness ==
    /\ last.op = "search"
    /\ last.hit
    /\ last.result.total_found > 0
    /\ \E i \in 1..Len(cache) : cache[i].key = last.key /\ cache[i].expires_at = now

\* C3: once an entry's expiry is past, get() of its key is a miss and removes
\* the entry, and a search of that key queries the store again (and the
\* file when the store does not fill the page), returns what it computed
\* from them and caches that with a new expiry; when the store fails, no
\* entry is left for the key.
C3_ExpiredEntryRecomputed ==
    [][\A i \in 1..Len(cache) :
          now > cache[i].expires_at =>
              /\ ~CacheGet(cache, cache[i].key, now).hit
              /\ IndexOf(CacheGet(cache, cache[i].key, now).store, cache[i].key) = 0
              /\ (last'.op = "search" /\ last'.key = cache[i].key) =>
                    /\ ~last'.hit
                    /\ last'.db_queries = 1
                    /\ (last'.db_error # "query" /\ last'.db_found < last'.page_size)
                          => last'.scan_calls = 1
                    /\ last'.outcome = "ok" =>
                          /\ \E found \in DbQuery(store, last'.term, last'.page_size) :
                                last'.result.items =
                                    NormalizeAll(found) \o NormalizeAll(last'.scanned)
                          /\ LET j == IndexOf(cache', last'.key)
                             IN /\ j # 0
                                /\ cache'[j].value = last'.result
                                /\ cache'[j].expires_at = now + TTL
                    /\ last'.outcome = "error" => IndexOf(cache', last'.key) = 0]_vars

\* A search found its key's entry expired and computed a result anew.
C3_Witness ==
    /\ last.op = "search"
    /\ last.expired
    /\ last.outcome = "ok"
    /\ last.db_queries = 1
    /\ last.result.total_found > 0

\* C4: the cache never holds more than max_items entries, one per key.
C4_CacheWithinMaxItems ==
    /\ Len(cache) <= MaxItems
    /\ \A i, j \in 1..Len(cache) : cache[i].key = cache[j].key => i = j

\* A search wrote its result into a full cache, evicting an entry.
C4_Witness ==
    /\ last.op = "search"
    /\ last.cache_sets = 1
    /\ last.evicted
    /\ Len(cache) = MaxItems

\* C5: a result returned by search holds at most page_size items, computed
\* or taken from the cache.
C5_ItemsWithinPageSize ==
    /\ last.op = "search" /\ last.outcome = "ok" =>
          /\ Len(last.result.items) <= last.page_size
          /\ last.result.total_found = Len(last.result.items)
    /\ \A i \in 1..Len(cache) : Len(cache[i].value.items) <= cache[i].key[2]

\* A search filled its page partly from the store and partly from the file.
C5_Witness ==
    /\ last.op = "search"
    /\ ~last.hit
    /\ last.db_found >= 1
    /\ last.scanned # <<>>
    /\ Len(last.result.items) = last.page_size

\* C6, as stated: no two records of the store have the same normalized
\* (case- and accent-insensitive) name.
C6_UniqueNormalizedName ==
    \A i, j \in 1..Len(store) :
        _clean_text(store[i].name_pt) = _clean_text(store[j].name_pt) => i = j

\* C6, amended: no two records of the store have the same name_pt, compared
\* as the exact string (names that differ only in case or accents are
\* different records); this holds before and after every upsert of the
\* resolver and of the online fallback.
C6_UniqueNamePt ==
    \A i, j \in 1..Len(store) : store[i].name_pt = store[j].name_pt => i = j

\* An upsert left two records whose names differ only in case or accents.
C6_Witness ==
    /\ last.op \in {"search", "tbca"}
    /\ last.upserts = 1
    /\ \E i, j \in 1..Len(store) :
          i # j /\ _clean_text(store[i].name_pt) = _clean_text(store[j].name_pt)

\* C7: a search that scans the file and upserts rows which the store already
\* holds leaves the store as it was and returns the items the search of
\* that (term, page_size) returned the time before.
C7_RescanIsIdempotent ==
    [][(/\ last'.op = "search"
        /\ last'.outcome = "ok"
        /\ last'.scanned # <<>>
        /\ \A k \in 1..Len(last'.scanned) :
              \E i \in 1..Len(store) : store[i] = last'.scanned[k])
       => /\ store' = store
          /\ \A i \in 1..Len(cache) :
                cache[i].key = last'.key =>
                    last'.result.items = cache[i].value.items]_vars

\* The file rows that match the term, all of them, are records of the store.
AllMatchesStored(s, f, term) ==
    LET rows == _scan_file(f, term, Len(f.rows))
    IN /\ rows # <<>>
       /\ \A k \in 1..Len(rows) : \E i \in 1..Len(s) : s[i].name_pt = rows[k].name_pt

\* C8, as stated: once a search for a term has found rows in the file and
\* they are in the store (the cache still holds, expired or not, the result
\* of the earlier search of that term, and every file row that matches the
\* term is a record of the store), a search for that term does not invoke
\* the scanner.
C8_NeverRescanned ==
    [][(/\ last'.op = "search"
        /\ \E i \in 1..Len(cache) :
              cache[i].key = last'.key /\ cache[i].value.items # <<>>
        /\ AllMatchesStored(store, file, last'.term))
          => last'.scan_calls = 0]_vars

\* C8, amended: a search invokes the scanner exactly when it misses the
\* cache and the store query returns fewer than page_size records, also for
\* a term scanned and upserted before, and asks it for page_size minus the
\* number of records the store returned; it does not invoke it on a cache
\* hit nor when the store query fills the page.
C8_ScanWhenStoreShort ==
    last.op = "search" =>
        /\ last.scan_calls =
              (IF ~last.hit /\ last.db_error # "query" /\ last.db_found < last.page_size
               THEN 1 ELSE 0)
        /\ last.scan_calls = 1 => last.scan_asked = last.page_size - last.db_found
        /\ last.scan_calls = 0 => last.scanned = <<>>

\* A later search of a key scanned the file again for rows the store held.
C8_Witness ==
    /\ last.op = "search"
    /\ last.outcome = "ok"
    /\ last.expired
    /\ last.db_found >= 1
    /\ last.scan_calls = 1
    /\ last.scanned # <<>>
    /\ \A k \in 1..Len(last.scanned) :
          \E i \in 1..last.db_found : last.result.items[i].name = last.scanned[k].name_pt

\* C9: a result built on a cache miss is tagged "taco_db" when the store
\* query returned at least one of its items and "taco_file" otherwise.
C9_TaggedByOrigin ==
    (last.op = "search" /\ ~last.hit /\ last.outcome = "ok") =>
        last.result.sources = <<IF last.db_found > 0 THEN "taco_db" ELSE "taco_file">>

\* C10: when the store query or the upsert raises during search, search
\* raises: it returns no result, writes nothing to the cache, leaves no
\* entry for the key and leaves the store as it was.
C10_StoreErrorPropagates ==
    [][(last'.op = "search" /\ last'.db_error # "none") =>
          /\ last'.outcome = "error"
          /\ last'.result = NoValue
          /\ last'.cache_sets = 0
          /\ IndexOf(cache', last'.key) = 0
          /\ store' = store]_vars

\* The upsert of scanned rows failed in a search whose entry had expired.
C10_Witness ==
    /\ last.op = "search"
    /\ last.db_error = "upsert"
    /\ last.outcome = "error"
    /\ last.expired
    /\ IndexOf(cache, last.key) = 0

\* C11: when the dataset file is missing, or its header maps no name column,
\* a search that misses the cache and reaches the store does not raise: the
\* scan contributes no row, nothing is upserted, the store is left as it was
\* and the items returned are exactly the records the store query returned.
C11_NoFileNoScanRows ==
    [][(/\ last'.op = "search"
        /\ ~last'.hit
        /\ last'.db_error # "query"
        /\ (~file.exists \/ ~file.name_col))
       => /\ last'.outcome = "ok"
          /\ last'.scanned = <<>>
          /\ last'.upserts = 0
          /\ store' = store
          /\ last'.result.total_found = last'.db_found
          /\ \E found \in DbQuery(store, last'.term, last'.page_size) :
                last'.result.items = NormalizeAll(found)]_vars

\* A search scanned a file whose header maps no name column, the store
\* holding a match of the term and the file a row that matches it.
C11_Witness ==
    /\ last.op = "search"
    /\ file.exists /\ ~file.name_col
    /\ ScanRows(file.rows, last.term, 1) # <<>>
    /\ last.scan_calls = 1
    /\ last.db_found >= 1
    /\ last.outcome = "ok"

\* C12: search_foods never raises to its caller; when the listing request or
\* a detail-page fetch fails (network failure, non-200 answer, parse
\* failure) it returns an empty result with total_found = 0 and upserts
\* nothing.
C12_TbcaNeverRaises ==
    last.op = "tbca" =>
        /\ last.outcome = "ok"
        /\ last.failure \in {"listing", "details"} =>
              /\ last.result = EmptyFound
              /\ last.result.total_found = 0
              /\ last.upserts = 0

\* The site listed items and the fetch of a detail page failed.
C12_Witness ==
    /\ last.op = "tbca"
    /\ last.failure = "details"
    /\ last.result.total_found = 0

\* C13: after search_foods(term) found at least one item and upserted it
\* into the store, the next search of the resolver for the same term
\* returns total_found > 0.
C13_ResolvesLocallyAfterTbca ==
    [][(/\ last.op = "tbca"
        /\ last.result.total_found > 0
        /\ last.failure = "none"
        /\ last'.op = "search"
        /\ last'.term = last.term
        /\ last'.db_error = "none")
       => /\ last'.outcome = "ok"
          /\ last'.result.total_found > 0]_vars

\* x is y rounded to 2 decimals: a multiple of 0.01 at most 0.005 from y.
IsRounded2(x, y) ==
    /\ 100 % x.d = 0
    /\ RLe(RAbs(RSub(x, y)), Rat(5, 1000))

\* C14: validate_portion_input(value, unit) is false for every value <= 0 and
\* for every unit that (lower-cased, stripped, its digits dropped) is not a
\* key of the unit conversion table, and true for a positive value with a
\* unit of the table.
C14_RejectsUnknownUnits ==
    last.op = "validate_portion_input" =>
        last.result = (/\ last.portion_value.n > 0
                       /\ CleanUnit(last.portion_unit) \in DOMAIN unit_conversions)

\* C15: for a portion unit of the conversion table, conversion_factor is the
\* grams of the portion over the grams of the base: over 100 for base_unit
\* "100g" (p / 100 for a portion of p grams), over the table's factor for a
\* base unit of the table.
C15_ConversionFactor ==
    (/\ last.op = "calculate_portion_nutrition"
     /\ CleanUnit(last.portion_unit) \in DOMAIN unit_conversions)
    => LET grams == RMul(last.portion_value, unit_conversions[CleanUnit(last.portion_unit)])
           factor == last.result.conversion_factor
       IN /\ last.base_unit = Base100g => factor = RDiv(grams, Rat(100, 1))
          /\ (last.base_unit = Base100g /\ last.portion_unit = <<"g">>) =>
                factor = Rat(last.portion_value.n, 100 * last.portion_value.d)
          /\ last.base_unit \in DOMAIN unit_conversions =>
                factor = RDiv(grams, unit_conversions[last.base_unit])

\* 150 mg against base "100g": the factor is 150 * 0.001 / 100.
C15_Witness ==
    /\ last.op = "calculate_portion_nutrition"
    /\ last.portion_value = Rat(150, 1)
    /\ last.portion_unit = <<"m", "g">>
    /\ last.base_unit = Base100g
    /\ last.result.conversion_factor = Rat(15, 10000)

\* C16: for every field of the base that has a value, the value scaled to
\* 200 g against base "100g" is within 0.01 of twice the value scaled to
\* 100 g against base "100g".
C16_ScalingIsLinear ==
    (/\ last.op = "calculate_portion_nutrition"
     /\ last.portion_value = Rat(200, 1)
     /\ last.portion_unit = <<"g">>
     /\ last.base_unit = Base100g)
    => \A r100 \in calculate_portion_nutrition(last.nutrients_base, Rat(100, 1),
                                               <<"g">>, Base100g) :
          \A k \in DOMAIN last.nutrients_base :
              last.nutrients_base[k].some =>
                  /\ last.result.nutrients[k].some
                  /\ r100.nutrients[k].some
                  /\ RLe(RAbs(RSub(last.result.nutrients[k].val,
                                   RMul(Rat(2, 1), r100.nutrients[k].val))),
                         Rat(1, 100))

\* C17: energy_kcal is derived from energy_kj exactly when the base has
\* energy only as kJ: with energy_kj present and energy_kcal absent the
\* result's energy_kcal is the result's energy_kj over 4.184, rounded; an
\* energy_kcal present in the base is only scaled; energy_kj is never
\* derived.
C17_KcalDerivedOnlyWhenAbsent ==
    last.op = "calculate_portion_nutrition" =>
        LET b == last.nutrients_base
            r == last.result.nutrients
            f == last.result.conversion_factor
            kj_present == "energy_kj" \in DOMAIN b /\ b["energy_kj"].some
            kcal_present == "energy_kcal" \in DOMAIN b /\ b["energy_kcal"].some
        IN /\ (kj_present /\ ~kcal_present) =>
                 /\ "energy_kcal" \in DOMAIN r
                 /\ r["energy_kcal"].some
                 /\ IsRounded2(r["energy_kcal"].val, RDiv(r["energy_kj"].val, KjPerKcal))
           /\ kcal_present =>
                 /\ r["energy_kcal"].some
                 /\ IsRounded2(r["energy_kcal"].val, RMul(b["energy_kcal"].val, f))
           /\ ~kj_present => ("energy_kj" \notin DOMAIN r \/ ~r["energy_kj"].some)

\* C18, as stated: every field of the base is, in the result, its value times
\* conversion_factor rounded to 2 decimals, and null when it is null in the
\* base.
C18_EveryFieldScaled ==
    last.op = "calculate_portion_nutrition" =>
        \A k \in DOMAIN last.nutrients_base :
            LET v == last.nutrients_base[k]
                x == last.result.nutrients[k]
            IN IF v.some
               THEN x.some /\ IsRounded2(x.val, RMul(v.val, last.result.conversion_factor))
               ELSE ~x.some

\* C18, amended: every field of the base other than energy_kcal is, in the
\* result, its value times conversion_factor rounded to 2 decimals, and null
\* when it is null in the base.  energy_kcal is the same, unless its scaled
\* value is missing, null or 0 and the scaled energy_kj is neither null nor
\* 0: then it is the scaled energy_kj over 4.184, rounded to 2 decimals.
C18_FieldsScaledKcalDerived ==
    last.op = "calculate_portion_nutrition" =>
        LET b == last.nutrients_base
            r == last.result.nutrients
            f == last.result.conversion_factor
            scaled(k) == IF b[k].some
                         THEN r[k].some /\ IsRounded2(r[k].val, RMul(b[k].val, f))
                         ELSE ~r[k].some
            kj_set == "energy_kj" \in DOMAIN r /\ r["energy_kj"].some /\ r["energy_kj"].val.n # 0
            kcal_unset == \/ "energy_kcal" \notin DOMAIN b
                          \/ ~b["energy_kcal"].some
                          \/ IsRounded2(Rat(0, 1), RMul(b["energy_kcal"].val, f))
        IN /\ \A k \in DOMAIN b \ {"energy_kcal"} : scaled(k)
           /\ DOMAIN b \subseteq DOMAIN r
           /\ DOMAIN r \subseteq DOMAIN b \cup {"energy_kcal"}
           /\ \/ /\ "energy_kcal" \in DOMAIN b
                 /\ scaled("energy_kcal")
                 /\ kj_set => (r["energy_kcal"].some /\ r["energy_kcal"].val.n # 0)
              \/ /\ "energy_kcal" \notin DOMAIN b
                 /\ "energy_kcal" \notin DOMAIN r
                 /\ ~kj_set
              \/ /\ kj_set
                 /\ kcal_unset
                 /\ "energy_kcal" \in DOMAIN r
                 /\ r["energy_kcal"].some
                 /\ IsRounded2(r["energy_kcal"].val, RDiv(r["energy_kj"].val, KjPerKcal))

\* 150 g of a base with 418.4 kJ, a null energy_kcal and 1.005 g of
\* carbohydrates: 627.6 kJ, 150.0 kcal derived, and 1.51 g.
C18_Witness ==
    /\ last.op = "calculate_portion_nutrition"
    /\ last.portion_value = Rat(150, 1)
    /\ last.portion_unit = <<"g">>
    /\ last.base_unit = Base100g
    /\ DOMAIN last.nutrients_base = Fields
    /\ last.nutrients_base["energy_kcal"] = NoneNum
    /\ last.nutrients_base["energy_kj"] = Some(Rat(4184, 10))
    /\ last.nutrients_base["carbohydrates"] = Some(Rat(1005, 1000))
    /\ last.result.nutrients["energy_kj"] = Some(Rat(6276, 10))
    /\ last.result.nutrients["energy_kcal"] = Some(Rat(150, 1))
    /\ last.result.nutrients["carbohydrates"] = Some(Rat(151, 100))

C20_EvictsEarliestExpiry ==
    [][(last'.op = "search" /\ last'.cache_sets = 1) =>
          LET c0 == IF last'.expired THEN RemoveAt(cache, IndexOf(cache, last'.key))
                    ELSE cache
              e == [key |-> last'.key, value |-> last'.result, expires_at |-> now + TTL]
          IN Len(c0) = MaxItems =>
                /\ Len(cache') = MaxItems
                /\ \E i \in 1..Len(c0) :
                      /\ \A j \in 1..Len(c0) : c0[i].expires_at <= c0[j].expires_at
                      /\ cache' = Append(RemoveAt(c0, i), e)]_vars

\* A search at the last instant wrote its result into a full cache: an older
\* entry is gone, the new entry is the last one and the one before it
\* expires later than the instant the evicted entry was written at.
C20_Witness ==
    /\ last.op = "search"
    /\ last.evicted
    /\ ~last.expired
    /\ now = MaxTime
    /\ Len(cache) = MaxItems
    /\ cache[Len(cache)].key = last.key
    /\ cache[Len(cache)].expires_at = now + TTL
    /\ cache[1].expires_at < now + TTL

\* The positions of a step among the steps a search performed.
StepAt(steps, name) == {i \in 1..Len(steps) : steps[i] = name}

UpsertedRows(l) ==
    IF l.op = "search" THEN l.scanned
    ELSE [i \in 1..Len(l.result.items) |->
             Row(l.result.items[i].name, l.result.items[i].energy_kcal)]

\* C22: after an upsert, the record of every incoming row has the row's
\* values, a null one included, whether the name was stored before or not;
\* a name that was stored keeps its record (the number of records grows by
\* exactly one for each name that was not stored), and the records of other
\* names are left as they were.
C22_UpsertOverwritesAllFields ==
    [][(/\ last'.op \in {"search", "tbca"}
        /\ last'.upserts = 1
        /\ last'.outcome = "ok"
        /\ (last'.op = "tbca" => last'.failure = "none"))
       => LET rows == UpsertedRows(last')
              names == {rows[k].name_pt : k \in 1..Len(rows)}
              stored == {store[i].name_pt : i \in 1..Len(store)}
          IN /\ Len(store') = Len(store) + Cardinality(names \ stored)
             /\ \A i \in 1..Len(store) :
                   /\ store'[i].name_pt = store[i].name_pt
                   /\ store[i].name_pt \notin names => store'[i] = store[i]
             /\ \A k \in 1..Len(rows) :
                   (\A m \in (k + 1)..Len(rows) : rows[m].name_pt # rows[k].name_pt) =>
                       \E i \in 1..Len(store') : store'[i] = rows[k]]_vars

\* The record of a name the file scan had stored with its energy value was
\* overwritten by a row of the online connector that has no energy value.
C22_Witness ==
    /\ last.op = "tbca"
    /\ last.upserts = 1
    /\ last.failure = "none"
    /\ store = <<Row(NameAb, "130"), Row(NameAc, None), Row(NameAbLower, None)>>
    /\ \E k \in 1..Len(file.rows) : file.rows[k] = Row(NameAc, "140")

\* C23: on a cache miss the store lookup of search finds the stored records
\* whose normalized name contains the normalized term, up to the page size:
\* the records the file scanner's matching rule would select.
C23_StoreLookupByNormalizedName ==
    [][(last'.op = "search" /\ ~last'.hit /\ last'.outcome = "ok")
       => last'.db_found =
              Min(last'.page_size,
                  Cardinality({i \in 1..Len(store) :
                      Contains(_clean_text(last'.term),
                               _clean_text(store[i].name_pt))}))]_vars

\* A cell matches a field when it satisfies one of the lookups of the field.
CellMatches(f, cell) ==
    \E a \in 1..Len(HeaderRules[f]) :
        LET alt == HeaderRules[f][a]
            h == _clean_text(cell)
        IN IF alt.exact THEN h = _clean_text(alt.keys[1])
           ELSE \A k \in 1..Len(alt.keys) : Contains(alt.keys[k], h)

\* C24: _map_headers maps every canonical field that some header cell
\* matches, to the index of a matching cell, whatever the position of the
\* cell; a field is left unmapped only when no cell matches it.
C24_MappedWheneverMatched ==
    last.op = "mapped" =>
        \A f \in CanonicalFields :
            /\ last.mapping[f].some <=>
                   \E i \in 1..Len(last.headers) : CellMatches(f, last.headers[i])
            /\ last.mapping[f].some =>
                   CellMatches(f, last.headers[last.mapping[f].idx + 1])

\* Two callers that searched the same key and both missed the cache.
BothMissed(p, q) ==
    /\ p # q
    /\ callers[p].pc \notin {"idle", "get"}
    /\ callers[q].pc \notin {"idle", "get"}
    /\ ~callers[p].hit
    /\ ~callers[q].hit
    /\ KeyOf(callers[p]) = KeyOf(callers[q])

\* C25: two concurrent callers of the same key that both missed the cache
\* both complete (neither is left by an error), and once both have written,
\* the cache holds exactly one entry for the key, the result of the caller
\* that wrote last, within max_items entries.
C25_BothCompleteLastWriteWins ==
    \A p \in DOMAIN callers, q \in DOMAIN callers :
        BothMissed(p, q) =>
            /\ callers[p].pc # "failed"
            /\ (callers[p].pc = "done" /\ callers[q].pc = "done" /\ callers[p].latest) =>
                   /\ Cardinality({i \in 1..Len(cache) : cache[i].key = KeyOf(callers[p])}) = 1
                   /\ \E i \in 1..Len(cache) :
                         /\ cache[i].key = KeyOf(callers[p])
                         /\ cache[i].value = callers[p].result
                   /\ Len(cache) <= MaxItems

\* The names a caller's session has added as new records.
InsertedNames(c) ==
    {c.pending[j].row.name_pt : j \in {k \in 1..Len(c.pending) : c.pending[k].kind = "insert"}}

\* C26: the upsert is not atomic.  When two concurrent upserts have both
\* selected the same name before either committed, both hold an insert of
\* it; once both have left their commit, exactly one of them has failed on
\* the unique index, and the record is stored once, with no update made.
C26_RacingInsertsOneFails ==
    \A p \in DOMAIN callers, q \in DOMAIN callers :
        (/\ p # q
         /\ InsertedNames(callers[p]) \cap InsertedNames(callers[q]) # {}
         /\ callers[p].pc # "upsert"
         /\ callers[q].pc # "upsert")
        => /\ (callers[p].error = "integrity") # (callers[q].error = "integrity")
           /\ \A n \in InsertedNames(callers[p]) \cap InsertedNames(callers[q]) :
                 Cardinality({i \in 1..Len(store) : store[i].name_pt = n}) = 1

\* Both callers selected "Ab" while it was not stored and both added it as a
\* new record; the first commit stored it and the second one failed.
C26_Witness ==
    /\ callers # NoCallers
    /\ callers[1].pc = "failed"
    /\ callers[1].error = "integrity"
    /\ callers[2].pc \in {"set", "write"}
    /\ NameAb \in InsertedNames(callers[1]) \cap InsertedNames(callers[2])
    /\ \E i \in 1..Len(store) : store[i].name_pt = NameAb

\* C27: the items of every result search returns have pairwise distinct
\* names: the scan adds no food the store query has returned already.
C27_ItemsPairwiseDistinct ==
    (last.op = "search" /\ last.outcome = "ok") =>
        \A i \in 1..Len(last.result.items), j \in 1..Len(last.result.items) :
            i # j => last.result.items[i].name # last.result.items[j].name

\* C28: the term field of the result search(term, page_size) returns is the
\* term passed in that call, also when the result comes from the cache.
C28_ResultEchoesTerm ==
    (last.op = "search" /\ last.outcome = "ok") => last.result.term = last.term

\* C29: cache.set on a key that is already present changes only the entry of
\* that key: every other entry is in the cache afterwards as it was before,
\* also when the cache holds max_items entries.
C29_SetOnPresentKeyKeepsOthers ==
    [][\A p \in DOMAIN callers :
          (/\ callers[p].pc = "write"
           /\ callers'[p].pc = "done"
           /\ IndexOf(cache, KeyOf(callers[p])) # 0)
          => \A i \in 1..Len(cache) :
                cache[i].key # KeyOf(callers[p]) =>
                    \E j \in 1..Len(cache') : cache'[j] = cache[i]]_vars

\* C30: when the store upsert inside search_foods fails after the listing and
\* the detail pages were fetched, search_foods does not raise and still
\* returns the scraped items, with total_found equal to their number and
\* sources ["tbca_online"]; the store is left as it was.
C30_UpsertFailureKeepsItems ==
    [][(last'.op = "tbca" /\ last'.failure = "upsert")
       => /\ last'.outcome = "ok"
          /\ last'.result.items # <<>>
          /\ \A i \in 1..Len(last'.result.items) :
                last'.result.items[i].source = "tbca_online"
          /\ last'.result.total_found = Len(last'.result.items)
          /\ last'.result.sources = <<"tbca_online">>
          /\ store' = store]_vars

\* The upsert failed, two scraped items were returned and neither is stored.
C30_Witness ==
    /\ last.op = "tbca"
    /\ last.failure = "upsert"
    /\ last.upsert_failed
    /\ last.result.total_found = 2
    /\ \A i \in 1..Len(last.result.items), k \in 1..Len(store) :
          store[k].name_pt # last.result.items[i].name
====
